---- MODULE Spec2Model ----
\* Model of the asynchronous chat server of src/main.cpp: the three global
\* registries (sessions, rooms, users_by_name), the per-session fields of
\* ChatSession, the outstanding asynchronous reads and writes, and one action
\* per completion handler (accept, read, write).  Strings are sequences of
\* one-character strings so that trim, starts_with and substr are computed.
EXTENDS Integers, Sequences, FiniteSets, TLC

\* ---------------------------------------------------------------- bounds
MaxSessions == 2        \* connections accepted in one run
MaxPending == 2         \* outstanding async_write operations per session

\* ---------------------------------------------------------------- constants
NumColors == 5          \* name_colors.size()

Sess == 1..MaxSessions
NULL == 0               \* a default-constructed (empty) shared_ptr

\* ---------------------------------------------------------------- strings
IsSpace(ch) == ch \in {" ", "\t", "\n", "\r", "\f"}

RECURSIVE DropLeadingSpace(_)
DropLeadingSpace(str) ==
  IF str # <<>> /\ IsSpace(Head(str)) THEN DropLeadingSpace(Tail(str)) ELSE str

RECURSIVE DropTrailingSpace(_)
DropTrailingSpace(str) ==
  IF str # <<>> /\ IsSpace(str[Len(str)])
  THEN DropTrailingSpace(SubSeq(str, 1, Len(str) - 1))
  ELSE str

NotCR(ch) == ch # "\r"
NotLF(ch) == ch # "\n"

trim(str) ==
  DropTrailingSpace(DropLeadingSpace(SelectSeq(SelectSeq(str, NotCR), NotLF)))

starts_with(str, pre) ==
  Len(str) >= Len(pre) /\ SubSeq(str, 1, Len(pre)) = pre

substr(str, pos) == SubSeq(str, pos + 1, Len(str))

\* The literal command strings of handle_command_or_message.
JoinPrefix == <<"/", "j", "o", "i", "n", " ">>
PvPrefix == <<"/", "p", "v", " ">>
LeaveCmd == <<"/", "l", "e", "a", "v", "e">>
WhereamiCmd == <<"/", "w", "h", "e", "r", "e", "a", "m", "i">>
RoomsCmd == <<"/", "r", "o", "o", "m", "s">>
UsersCmd == <<"/", "u", "s", "e", "r", "s">>

\* Raw chunks a client sends (what one async_read_some completion returns).
\* A client that has no name yet sends one of NameChunks, a named one one of
\* CommandChunks; the second name has the form of a command.
NameA == <<"a">>
NameJ == JoinPrefix \o <<"r">>
NameChunks ==
  { NameA \o <<"\n">>, <<" ">> \o NameJ \o <<"\r", "\n">>, <<" ", "\r", "\n">> }
CommandChunks ==
  { JoinPrefix \o <<"r", "\n">>, JoinPrefix \o <<"q", "\n">>,
    PvPrefix \o NameA \o <<"\n">>, PvPrefix \o NameJ \o <<"\n">>,
    JoinPrefix \o <<"\n">>,
    LeaveCmd \o <<"\n">>, WhereamiCmd \o <<"\n">>, RoomsCmd \o <<"\n">>,
    UsersCmd \o <<"\n">>, <<"h", "i", "\n">>, <<"\n">> }

\* Characters in ASCII order; std::map<string, ...> iterates its keys in
\* ascending std::string order.
Alphabet ==
  <<"\t", "\n", "\f", "\r", " ", "/", "a", "b", "e", "h", "i", "j", "l", "m",
    "n", "o", "p", "q", "r", "s", "u", "v", "w">>
Code(ch) == CHOOSE i \in 1..Len(Alphabet) : Alphabet[i] = ch

RECURSIVE StrLess(_, _)
StrLess(x, y) ==
  IF y = <<>> THEN FALSE
  ELSE IF x = <<>> THEN TRUE
  ELSE IF Head(x) # Head(y) THEN Code(Head(x)) < Code(Head(y))
  ELSE StrLess(Tail(x), Tail(y))

RECURSIVE KeysInOrder(_)
KeysInOrder(K) ==
  IF K = {} THEN <<>>
  ELSE LET k == CHOOSE x \in K : \A y \in K \ {x} : StrLess(x, y)
       IN <<k>> \o KeysInOrder(K \ {k})

\* ---------------------------------------------------------------- state
VARIABLES
  sessions,       \* set<shared_ptr<ChatSession>> sessions
  rooms,          \* map<string, set<shared_ptr<ChatSession>>> rooms
  users_by_name,  \* map<string, shared_ptr<ChatSession>> users_by_name
  color_index,    \* int color_index
  created,        \* the ChatSession objects constructed so far
  name_,          \* per session: string name_
  color_,         \* per session: string color_ (index into name_colors)
  has_name_,      \* per session: bool has_name_
  mode_,          \* per session: Mode mode_
  active_room_,   \* per session: string active_room_
  active_pv_,     \* per session: string active_pv_
  reading,        \* per session: an async_read_some is outstanding
  pending,        \* per session: number of outstanding async_write operations
  accepting,      \* an async_accept of the ChatServer is outstanding
  issued,         \* per session: the messages deliver() was called with, in order
  writes,         \* per session: the async_write operations not yet complete
  wire,           \* per session: the bytes written to its socket so far
  out,            \* per session: messages handed to deliver() by the last handler
  last            \* the last completion handler that ran: [op, s, arg, live]

vars ==
  <<sessions, rooms, users_by_name, color_index, created, name_, color_,
    has_name_, mode_, active_room_, active_pv_, reading, pending, accepting,
    issued, writes, wire, out, last>>

\* The bytes of the connections: followed in SpecWire, left alone elsewhere.
wirevars == <<issued, writes, wire>>

NoOut == [t \in Sess |-> <<>>]

\* The part of the state a handler of ChatSession reads and writes, as a value
\* threaded through the statements of the handler.
Cur ==
  [ sessions |-> sessions, rooms |-> rooms, users_by_name |-> users_by_name,
    name_ |-> name_, has_name_ |-> has_name_, mode_ |-> mode_,
    active_room_ |-> active_room_, active_pv_ |-> active_pv_, out |-> NoOut ]

\* std::map::operator[]: a missing key is inserted with a value-initialised value.
MapIndex(m, k, dflt) == IF k \in DOMAIN m THEN m ELSE m @@ (k :> dflt)
MapErase(m, k) == [x \in DOMAIN m \ {k} |-> m[x]]

\* ---------------------------------------------------------------- ChatSession
colored_name(st, s) == <<color_[s], st.name_[s]>>

deliver(st, t, msg) == [st EXCEPT !.out[t] = Append(@, msg)]

RECURSIVE DeliverEach(_, _, _)
DeliverEach(st, S, msg) ==
  IF S = {} THEN st
  ELSE LET t == CHOOSE x \in S : \A y \in S : x <= y
       IN DeliverEach(deliver(st, t, msg), S \ {t}, msg)

\* broadcast_all to the sessions that have set a name only.
broadcast_all_NamedOnly(st, msg) ==
  DeliverEach(st, {t \in st.sessions : st.has_name_[t]}, msg)

broadcast_all(st, msg) == DeliverEach(st, st.sessions, msg)

broadcast_room(st, room, msg) ==
  IF room \notin DOMAIN st.rooms THEN st
  ELSE DeliverEach(st, st.rooms[room], msg)

\* LeaveRoom without the erase of self from the member set.
LeaveRoom_KeepMember(st, s) ==
  IF st.mode_[s] = "Room" /\ st.active_room_[s] # <<>>
  THEN broadcast_room(st, st.active_room_[s],
                      <<"LeftRoom", colored_name(st, s), st.active_room_[s]>>)
  ELSE st

\* The room part shared by leave_all and cleanup: erase self from the active
\* room's member set and tell the members that remain.
LeaveRoom(st, s) ==
  IF st.mode_[s] = "Room" /\ st.active_room_[s] # <<>>
  THEN LET room == st.active_room_[s]
       IN IF room \in DOMAIN st.rooms
          THEN broadcast_room([st EXCEPT !.rooms[room] = @ \ {s}], room,
                              <<"LeftRoom", colored_name(st, s), room>>)
          ELSE st
  ELSE st

\* ClearContext without active_room_.clear().
ClearContext_KeepRoom(st, s) ==
  [st EXCEPT !.mode_[s] = "None", !.active_pv_[s] = <<>>]

ClearContext(st, s) ==
  [st EXCEPT !.mode_[s] = "None", !.active_room_[s] = <<>>, !.active_pv_[s] = <<>>]

leave_all(st, s) == ClearContext(LeaveRoom(st, s), s)

EraseOwnName(st, s) ==
  IF st.name_[s] # <<>>
  THEN LET m == MapIndex(st.users_by_name, st.name_[s], NULL)
       IN IF m[st.name_[s]] = s
          THEN [st EXCEPT !.users_by_name = MapErase(m, st.name_[s])]
          ELSE [st EXCEPT !.users_by_name = m]
  ELSE st

LeftServerNotice(st, s) ==
  IF st.has_name_[s]
  THEN broadcast_all(st, <<"LeftServer", colored_name(st, s)>>)
  ELSE st

\* cleanup without the erase from users_by_name.
cleanup_KeepName(st, s) ==
  LET st1 == [st EXCEPT !.sessions = @ \ {s}]
      st3 == ClearContext(LeaveRoom(st1, s), s)
  IN LeftServerNotice(st3, s)

cleanup(st, s) ==
  LET st1 == [st EXCEPT !.sessions = @ \ {s}]
      st2 == EraseOwnName(st1, s)
      st3 == ClearContext(LeaveRoom(st2, s), s)
  IN LeftServerNotice(st3, s)

\* handle_name without the users_by_name.count(name) test.
handle_name_NoCheck(st, s, name) ==
  LET st1 == [st EXCEPT !.name_[s] = name, !.has_name_[s] = TRUE,
                         !.users_by_name = (name :> s) @@ @]
      st2 == deliver(st1, s, <<"Hi", colored_name(st1, s)>>)
  IN broadcast_all(st2, <<"JoinedServer", colored_name(st1, s)>>)

\* handle_name that keeps the submitted name after refusing it.
handle_name_KeepRefused(st, s, name) ==
  IF name \in DOMAIN st.users_by_name
  THEN deliver([st EXCEPT !.name_[s] = name], s, <<"NameTaken">>)
  ELSE LET st1 == [st EXCEPT !.name_[s] = name, !.has_name_[s] = TRUE,
                             !.users_by_name = (name :> s) @@ @]
           st2 == deliver(st1, s, <<"Hi", colored_name(st1, s)>>)
       IN broadcast_all(st2, <<"JoinedServer", colored_name(st1, s)>>)

handle_name(st, s, name) ==
  IF name \in DOMAIN st.users_by_name
  THEN deliver(st, s, <<"NameTaken">>)
  ELSE LET st1 == [st EXCEPT !.name_[s] = name, !.has_name_[s] = TRUE,
                             !.users_by_name = (name :> s) @@ @]
           st2 == deliver(st1, s, <<"Hi", colored_name(st1, s)>>)
       IN broadcast_all(st2, <<"JoinedServer", colored_name(st1, s)>>)

\* switch_to_room that announces the join before it inserts the session.
switch_to_room_AnnounceFirst(st, s, room) ==
  LET st1 == leave_all(st, s)
      st2 == [st1 EXCEPT !.mode_[s] = "Room", !.active_room_[s] = room]
      st3 == broadcast_room(st2, room, <<"JoinedRoom", colored_name(st2, s), room>>)
      m == MapIndex(st3.rooms, room, {})
      st4 == [st3 EXCEPT !.rooms = [m EXCEPT ![room] = @ \cup {s}]]
  IN deliver(st4, s, <<"NowInRoom", room>>)

switch_to_room(st, s, room) ==
  LET st1 == leave_all(st, s)
      st2 == [st1 EXCEPT !.mode_[s] = "Room", !.active_room_[s] = room]
      m == MapIndex(st2.rooms, room, {})
      st3 == [st2 EXCEPT !.rooms = [m EXCEPT ![room] = @ \cup {s}]]
      st4 == broadcast_room(st3, room, <<"JoinedRoom", colored_name(st3, s), room>>)
  IN deliver(st4, s, <<"NowInRoom", room>>)

\* switch_to_pv that leaves the current context before it validates the target.
switch_to_pv_LeaveFirst(st, s, target) ==
  LET st1 == leave_all(st, s)
  IN IF target \notin DOMAIN st1.users_by_name
     THEN deliver(st1, s, <<"UserNotFound">>)
     ELSE IF target = st1.name_[s]
     THEN deliver(st1, s, <<"SelfPv">>)
     ELSE deliver([st1 EXCEPT !.mode_[s] = "Pv", !.active_pv_[s] = target],
                  s, <<"PvStarted", target>>)

switch_to_pv(st, s, target) ==
  IF target \notin DOMAIN st.users_by_name
  THEN deliver(st, s, <<"UserNotFound">>)
  ELSE IF target = st.name_[s]
  THEN deliver(st, s, <<"SelfPv">>)
  ELSE LET st1 == leave_all(st, s)
           st2 == [st1 EXCEPT !.mode_[s] = "Pv", !.active_pv_[s] = target]
       IN deliver(st2, s, <<"PvStarted", target>>)

\* The room loop of send_message without the skip of the sender.
SendToRoom_Echo(st, s, S, msg) == DeliverEach(st, S, msg)

RECURSIVE SendToRoom(_, _, _, _)
SendToRoom(st, s, S, msg) ==
  IF S = {} THEN st
  ELSE LET t == CHOOSE x \in S : \A y \in S : x <= y
       IN SendToRoom(IF t = s THEN st ELSE deliver(st, t, msg), s, S \ {t}, msg)

send_message(st, s, text) ==
  IF st.mode_[s] = "Room" /\ st.active_room_[s] # <<>>
  THEN LET room == st.active_room_[s]
           st1 == [st EXCEPT !.rooms = MapIndex(@, room, {})]
       IN SendToRoom(st1, s, st1.rooms[room],
                     <<"RoomMsg", colored_name(st, s), room, text>>)
  ELSE IF st.mode_[s] = "Pv" /\ st.active_pv_[s] # <<>>
  THEN LET st1 == [st EXCEPT !.users_by_name = MapIndex(@, st.active_pv_[s], NULL)]
           t == st1.users_by_name[st.active_pv_[s]]
       IN IF t # NULL
          THEN deliver(deliver(st1, t, <<"PvMsg", colored_name(st, s), text>>),
                       t, <<"PvNotify", st.name_[s]>>)
          ELSE deliver(st1, s, <<"Offline">>)
  ELSE deliver(st, s, <<"NotInContext">>)

report_whereami(st, s) ==
  IF st.mode_[s] = "Room" THEN deliver(st, s, <<"WhereRoom", st.active_room_[s]>>)
  ELSE IF st.mode_[s] = "Pv" THEN deliver(st, s, <<"WherePv", st.active_pv_[s]>>)
  ELSE deliver(st, s, <<"WhereNone">>)

\* The text of /rooms: one <<name, member count>> line per entry of rooms.
RoomLines(m) ==
  LET ks == KeysInOrder(DOMAIN m)
  IN [i \in 1..Len(ks) |-> <<ks[i], Cardinality(m[ks[i]])>>]

list_rooms(st, s) == deliver(st, s, <<"Rooms", RoomLines(st.rooms)>>)

list_users(st, s) ==
  deliver(st, s, <<"Users", KeysInOrder(DOMAIN st.users_by_name)>>)

handle_command_or_message(st, s, msg) ==
  IF starts_with(msg, JoinPrefix) THEN switch_to_room(st, s, substr(msg, 6))
  ELSE IF starts_with(msg, PvPrefix) THEN switch_to_pv(st, s, substr(msg, 4))
  ELSE IF msg = LeaveCmd THEN deliver(leave_all(st, s), s, <<"LeftAll">>)
  ELSE IF msg = WhereamiCmd THEN report_whereami(st, s)
  ELSE IF msg = RoomsCmd THEN list_rooms(st, s)
  ELSE IF msg = UsersCmd THEN list_users(st, s)
  ELSE send_message(st, s, msg)

\* Which branch of the read handler a trimmed line takes.
OpOf(s, msg) ==
  IF msg = <<>> THEN "empty"
  ELSE IF ~has_name_[s] THEN "name"
  ELSE IF starts_with(msg, JoinPrefix) THEN "join"
  ELSE IF starts_with(msg, PvPrefix) THEN "pv"
  ELSE IF msg = LeaveCmd THEN "leave"
  ELSE IF msg = WhereamiCmd THEN "whereami"
  ELSE IF msg = RoomsCmd THEN "rooms"
  ELSE IF msg = UsersCmd THEN "users"
  ELSE "chat"

ArgOf(s, msg) ==
  IF OpOf(s, msg) = "join" THEN substr(msg, 6)
  ELSE IF OpOf(s, msg) = "pv" THEN substr(msg, 4)
  ELSE msg

\* A session is live while it is in sessions: start() inserts it and only
\* cleanup() erases it.  A terminated session is one whose cleanup has run.
Live(s) == s \in sessions
Terminated(s) == s \in created /\ s \notin sessions

\* ---------------------------------------------------------------- actions
Init ==
  /\ sessions = {}
  /\ rooms = <<>>
  /\ users_by_name = <<>>
  /\ color_index = 0
  /\ created = {}
  /\ name_ = [s \in Sess |-> <<>>]
  /\ color_ = [s \in Sess |-> 0]
  /\ has_name_ = [s \in Sess |-> FALSE]
  /\ mode_ = [s \in Sess |-> "None"]
  /\ active_room_ = [s \in Sess |-> <<>>]
  /\ active_pv_ = [s \in Sess |-> <<>>]
  /\ reading = [s \in Sess |-> FALSE]
  /\ pending = [s \in Sess |-> 0]
  /\ accepting = TRUE
  /\ issued = [s \in Sess |-> <<>>]
  /\ writes = [s \in Sess |-> <<>>]
  /\ wire = [s \in Sess |-> <<>>]
  /\ out = NoOut
  /\ last = [op |-> "init", s |-> NULL, arg |-> <<>>, live |-> FALSE]

\* The state a handler leaves behind: the registries and fields of st, and one
\* async_write started per message handed to deliver (its completion handler
\* captures only the target session, so the operation is counted, not stored).
Commit(st, queue) ==
  /\ \A t \in Sess : queue[t] + Len(st.out[t]) <= MaxPending
  /\ sessions' = st.sessions
  /\ rooms' = st.rooms
  /\ users_by_name' = st.users_by_name
  /\ name_' = st.name_
  /\ has_name_' = st.has_name_
  /\ mode_' = st.mode_
  /\ active_room_' = st.active_room_
  /\ active_pv_' = st.active_pv_
  /\ pending' = [t \in Sess |-> queue[t] + Len(st.out[t])]
  /\ out' = st.out
  /\ UNCHANGED wirevars

\* ChatSession::ChatSession and start(), as run by the accept handler.
start(st, s) == deliver([st EXCEPT !.sessions = @ \cup {s}], s, <<"Welcome">>)

\* Whether the handler of async_accept, completed with or without an error,
\* ends with an accept outstanding: do_accept() is its unconditional last
\* statement.
do_accept_OnSuccess(ec) == ~ec

do_accept(ec) == TRUE

\* The completion handler of async_accept with no error.
AcceptOk ==
  /\ accepting
  /\ Cardinality(created) < MaxSessions
  /\ LET s == Cardinality(created) + 1
     IN /\ created' = created \cup {s}
        /\ color_' = [color_ EXCEPT ![s] = color_index % NumColors]
        /\ color_index' = color_index + 1
        /\ Commit(start(Cur, s), pending)
        /\ reading' = [reading EXCEPT ![s] = TRUE]
        /\ last' = [op |-> "accept", s |-> s, arg |-> <<>>, live |-> FALSE]
  /\ accepting' = do_accept(FALSE)

\* The completion handler of async_accept with an error: no session is made.
AcceptFail ==
  /\ accepting
  /\ accepting' = do_accept(TRUE)
  /\ out' = NoOut
  /\ last' = [op |-> "accept_error", s |-> NULL, arg |-> <<>>, live |-> FALSE]
  /\ UNCHANGED <<sessions, rooms, users_by_name, color_index, created, name_,
                 color_, has_name_, mode_, active_room_, active_pv_, reading,
                 pending, wirevars>>

\* The body of the read handler for the trimmed line msg: an empty line is
\* dropped, the line of a session without a name is its name, any other line
\* is a command or a message.
on_line_CommandsFirst(st, s, msg) ==
  IF msg = <<>> THEN st
  ELSE IF ~st.has_name_[s] /\ msg[1] # "/" THEN handle_name(st, s, msg)
  ELSE handle_command_or_message(st, s, msg)

on_line(st, s, msg) ==
  IF msg = <<>> THEN st
  ELSE IF ~st.has_name_[s] THEN handle_name(st, s, msg)
  ELSE handle_command_or_message(st, s, msg)

\* The completion handler of async_read_some with no error.
ReadOk(s, chunk) ==
  /\ s \in created
  /\ reading[s]
  /\ chunk \in (IF has_name_[s] THEN CommandChunks ELSE NameChunks)
  /\ LET msg == trim(chunk)
     IN /\ Commit(on_line(Cur, s, msg), pending)
        /\ last' = [op |-> OpOf(s, msg), s |-> s, arg |-> ArgOf(s, msg),
                    live |-> s \in sessions]
  /\ UNCHANGED <<color_index, created, color_, reading, accepting>>

\* The completion handler of async_read_some with an error.
ReadFail(s) ==
  /\ s \in created
  /\ reading[s]
  /\ Commit(cleanup(Cur, s), pending)
  /\ reading' = [reading EXCEPT ![s] = FALSE]
  /\ last' = [op |-> "read_fail", s |-> s, arg |-> <<>>, live |-> s \in sessions]
  /\ UNCHANGED <<color_index, created, color_, accepting>>

\* The completion handler of async_write with no error.
WriteOk(s) ==
  /\ pending[s] > 0
  /\ pending' = [pending EXCEPT ![s] = @ - 1]
  /\ out' = NoOut
  /\ last' = [op |-> "write_ok", s |-> s, arg |-> <<>>, live |-> s \in sessions]
  /\ UNCHANGED <<sessions, rooms, users_by_name, color_index, created, name_,
                 color_, has_name_, mode_, active_room_, active_pv_, reading,
                 accepting, wirevars>>

\* The write handler with an error, cleaning up the session whose handler ran
\* last in place of the session written to.
WriteFail_Issuer(s) ==
  /\ pending[s] > 0
  /\ Commit(cleanup(Cur, IF last.s \in Sess THEN last.s ELSE s),
            [pending EXCEPT ![s] = @ - 1])
  /\ last' = [op |-> "write_fail", s |-> s, arg |-> <<>>, live |-> s \in sessions]
  /\ UNCHANGED <<color_index, created, color_, reading, accepting>>

\* The completion handler of async_write with an error.
WriteFail(s) ==
  /\ pending[s] > 0
  /\ Commit(cleanup(Cur, s), [pending EXCEPT ![s] = @ - 1])
  /\ last' = [op |-> "write_fail", s |-> s, arg |-> <<>>, live |-> s \in sessions]
  /\ UNCHANGED <<color_index, created, color_, reading, accepting>>

Next ==
  \/ AcceptOk
  \/ AcceptFail
  \/ \E s \in Sess, chunk \in NameChunks \cup CommandChunks : ReadOk(s, chunk)
  \/ \E s \in Sess : ReadFail(s)
  \/ \E s \in Sess : WriteOk(s)
  \/ \E s \in Sess : WriteFail(s)

Spec == Init /\ [][Next]_vars

\* The behaviours in which a session whose cleanup has run handles no further
\* line (its outstanding read only fails): a subset of the behaviours of Spec.
ReadOkLive(s, chunk) == Live(s) /\ ReadOk(s, chunk)

NextReadStops ==
  \/ AcceptOk
  \/ AcceptFail
  \/ \E s \in Sess, chunk \in NameChunks \cup CommandChunks : ReadOkLive(s, chunk)
  \/ \E s \in Sess : ReadFail(s)
  \/ \E s \in Sess : WriteOk(s)
  \/ \E s \in Sess : WriteFail(s)

SpecReadStops == Init /\ [][NextReadStops]_vars

\* ---------------------------------------------------------------- the wire
\* What deliver() puts on one connection. asio::async_write is a composed
\* operation: it writes its buffer by async_write_some calls, the first of
\* them made inside the call of async_write and each later one by the handler
\* of the one before; the socket serves async_write_some calls in the order
\* they were made. async_write requires that no other write runs on the stream
\* before it completes and that the buffer stays valid until then. deliver()
\* starts it at once for every message, with a buffer over the caller's
\* string, which is destroyed when deliver() returns: operations to one
\* session overlap, and what is written after the call is read from a
\* destroyed string.
\* The number of deliver() calls followed on the wire, over all sessions.
MaxIssued == 3

\* Two messages of two bytes each.
WireMsgs == { <<"x1", "x2">>, <<"y1", "y2">> }

\* A byte read through a dangling buffer.
Indeterminate == "?"

\* Every session connected and its greeting written: the state of Spec after
\* the accepts and the completions of the "Welcome" writes, in order.
InitWire ==
  /\ sessions = Sess
  /\ rooms = <<>>
  /\ users_by_name = <<>>
  /\ color_index = MaxSessions
  /\ created = Sess
  /\ name_ = [s \in Sess |-> <<>>]
  /\ color_ = [s \in Sess |-> (s - 1) % NumColors]
  /\ has_name_ = [s \in Sess |-> FALSE]
  /\ mode_ = [s \in Sess |-> "None"]
  /\ active_room_ = [s \in Sess |-> <<>>]
  /\ active_pv_ = [s \in Sess |-> <<>>]
  /\ reading = [s \in Sess |-> TRUE]
  /\ pending = [s \in Sess |-> 0]
  /\ accepting = TRUE
  /\ issued = [s \in Sess |-> <<>>]
  /\ writes = [s \in Sess |-> <<>>]
  /\ wire = [s \in Sess |-> <<>>]
  /\ out = NoOut
  /\ last = [op |-> "write_ok", s |-> MaxSessions, arg |-> <<>>, live |-> TRUE]

Issued == {p \in Sess \X (1..MaxIssued) : p[2] <= Len(issued[p[1]])}

RemoveAt(seq, i) == SubSeq(seq, 1, i - 1) \o SubSeq(seq, i + 1, Len(seq))

\* The operations of session t whose async_write_some waits for the socket.
Waiting(t) == {i \in DOMAIN writes[t] : writes[t][i].waiting}

\* k bytes of operation w as a write made after deliver() has returned puts
\* them on the socket: each as it was in msg or as the freed memory holds it.
Dangling(w, k, bad) ==
  [j \in 1..k |-> IF j \in bad THEN Indeterminate ELSE w.msg[w.done + j]]

\* deliver(msg) on session t: async_write makes its first async_write_some,
\* which writes k0 bytes at once when no earlier call waits (k0 = 0: the socket
\* would block, the call waits).
WireDeliver(t, m, k0) ==
  /\ t \in sessions
  /\ Cardinality(Issued) < MaxIssued
  /\ pending[t] < MaxPending
  /\ k0 \in 0..Len(m)
  /\ k0 > 0 => Waiting(t) = {}
  /\ issued' = [issued EXCEPT ![t] = Append(@, m)]
  /\ wire' = [wire EXCEPT ![t] = @ \o SubSeq(m, 1, k0)]
  /\ writes' = [writes EXCEPT ![t] =
                  Append(@, [msg |-> m, done |-> k0, waiting |-> (k0 = 0)])]
  /\ pending' = [pending EXCEPT ![t] = @ + 1]
  /\ UNCHANGED <<sessions, rooms, users_by_name, color_index, created, name_,
                 color_, has_name_, mode_, active_room_, active_pv_, reading,
                 accepting, out, last>>

\* The socket of t takes data: the async_write_some that has waited longest
\* writes k bytes.
WireWritable(t, k, bad) ==
  /\ Waiting(t) # {}
  /\ LET i == CHOOSE j \in Waiting(t) : \A l \in Waiting(t) : j <= l
         w == writes[t][i]
     IN /\ k \in 1..(Len(w.msg) - w.done)
        /\ bad \subseteq 1..k
        /\ wire' = [wire EXCEPT ![t] = @ \o Dangling(w, k, bad)]
        /\ writes' = [writes EXCEPT ![t][i] =
                        [w EXCEPT !.done = @ + k, !.waiting = FALSE]]
  /\ UNCHANGED <<sessions, rooms, users_by_name, color_index, created, name_,
                 color_, has_name_, mode_, active_room_, active_pv_, reading,
                 pending, accepting, issued, out, last>>

\* The handler of an async_write_some of the i-th operation of t runs: with
\* all of msg written the operation completes, else it makes the next
\* async_write_some, served at once (k > 0) or waiting behind the calls made
\* before it.
WireContinue(t, i, k, bad) ==
  /\ i \in DOMAIN writes[t]
  /\ ~writes[t][i].waiting
  /\ LET w == writes[t][i]
     IN IF w.done = Len(w.msg)
        THEN /\ k = 0 /\ bad = {}
             /\ writes' = [writes EXCEPT ![t] = RemoveAt(@, i)]
             /\ pending' = [pending EXCEPT ![t] = @ - 1]
             /\ UNCHANGED wire
        ELSE /\ k \in 0..(Len(w.msg) - w.done)
             /\ k > 0 => Waiting(t) = {}
             /\ bad \subseteq 1..k
             /\ wire' = [wire EXCEPT ![t] = @ \o Dangling(w, k, bad)]
             /\ writes' = [writes EXCEPT ![t] =
                             IF k > 0 THEN [@ EXCEPT ![i].done = w.done + k]
                             ELSE Append(RemoveAt(@, i), [w EXCEPT !.waiting = TRUE])]
             /\ UNCHANGED pending
  /\ UNCHANGED <<sessions, rooms, users_by_name, color_index, created, name_,
                 color_, has_name_, mode_, active_room_, active_pv_, reading,
                 accepting, issued, out, last>>

NextWire ==
  \/ \E t \in Sess, m \in WireMsgs, k0 \in 0..2 : WireDeliver(t, m, k0)
  \/ \E t \in Sess, k \in 1..2, bad \in SUBSET (1..2) : WireWritable(t, k, bad)
  \/ \E t \in Sess, i \in 1..MaxPending, k \in 0..2, bad \in SUBSET (1..2) :
       WireContinue(t, i, k, bad)

SpecWire == InitWire /\ [][NextWire]_vars

\* ---------------------------------------------------------------- vocabulary
LineOps == {"empty", "name", "join", "pv", "leave", "whereami", "rooms", "users", "chat"}
CleanupOps == {"read_fail", "write_fail"}

Count(seq, m) == Cardinality({i \in DOMAIN seq : seq[i] = m})
Kinds(seq) == {seq[i][1] : i \in DOMAIN seq}

InSomeRoom(s, m) == \E r \in DOMAIN m : s \in m[r]
IsValueOf(s, m) == \E n \in DOMAIN m : m[n] = s

\* ---------------------------------------------------------------- C1
\* C1: no two live sessions hold the same non-empty name.
C1_NameUniqueness ==
  \A s \in sessions : \A t \in sessions :
    (s # t /\ name_[s] # <<>>) => name_[s] # name_[t]

\* Two live sessions, one holding a name, the other just refused that name.
C1_Witness ==
  /\ last.op = "name"
  /\ last.s \in sessions
  /\ ~has_name_[last.s]
  /\ \E t \in sessions \ {last.s} : name_[t] = last.arg

\* ---------------------------------------------------------------- C2
\* C2: a session is in the member set of room r exactly when its mode is Room
\* and its active room is r.
C2_RoomMembership ==
  /\ \A r \in DOMAIN rooms : \A s \in rooms[r] :
       mode_[s] = "Room" /\ active_room_[s] = r
  /\ \A s \in Sess : mode_[s] = "Room" =>
       active_room_[s] \in DOMAIN rooms /\ s \in rooms[active_room_[s]]

\* A session has just moved out of a room it was in, another room or a private
\* chat being its new context, while the old room still has its entry.
C2_Witness ==
  /\ last.op \in {"join", "pv"}
  /\ mode_[last.s] \in {"Room", "Pv"}
  /\ \E r \in DOMAIN rooms :
       /\ r # active_room_[last.s]
       /\ \E t \in Sess \ {last.s} : Count(out[t], <<"LeftRoom", <<color_[last.s], name_[last.s]>>, r>>) = 1

\* ---------------------------------------------------------------- C3
\* C3: every key of users_by_name maps to a live session whose name is that key
\* (so the name of a session that has disconnected is no key).
C3_NamesPointToLiveSessions ==
  \A n \in DOMAIN users_by_name :
    /\ users_by_name[n] \in sessions
    /\ name_[users_by_name[n]] = n

\* ---------------------------------------------------------------- C4
\* C4: a cleanup of a session whose cleanup has already run leaves the three
\* registries as they are and sends no "left the server" notice.
C4_IdempotentCleanup ==
  [][ (last'.op \in CleanupOps /\ Terminated(last'.s)) =>
        /\ sessions' = sessions
        /\ rooms' = rooms
        /\ users_by_name' = users_by_name
        /\ \A t \in Sess : "LeftServer" \notin Kinds(out'[t]) ]_vars

\* ---------------------------------------------------------------- C5
\* C5: the reply to /rooms never lists a room with zero members.
C5_NoEmptyRoomListed ==
  last.op = "rooms" =>
    \A i \in DOMAIN out[last.s][1][2] : out[last.s][1][2][i][2] > 0

\* ---------------------------------------------------------------- C6
\* C6: the mode is one of None, Room, Pv; active_room_ is non-empty exactly in
\* mode Room and active_pv_ is non-empty exactly in mode Pv.
C6_ModeContext ==
  \A s \in Sess :
    /\ mode_[s] \in {"None", "Room", "Pv"}
    /\ (active_room_[s] # <<>>) <=> (mode_[s] = "Room")
    /\ (active_pv_[s] # <<>>) <=> (mode_[s] = "Pv")

\* A session that was in a room has just switched to a private chat.
C6_Witness ==
  /\ last.op = "pv"
  /\ mode_[last.s] = "Pv"
  /\ active_pv_[last.s] = last.arg
  /\ \E t \in Sess \ {last.s} : "LeftRoom" \in Kinds(out[t])

\* ---------------------------------------------------------------- C7
\* C7: when the read of a live session s fails, afterwards s is in none of
\* sessions, the values of users_by_name and the member sets of rooms; every
\* other member of the room s was in is sent one "left room" notice; and the
\* sessions still in sessions are sent one "left the server" notice each if s
\* had a name, and none if it had not.
LeftRoomMsg(s, r) == <<"LeftRoom", <<color_[s], name_[s]>>, r>>
LeftServerMsg(s) == <<"LeftServer", <<color_[s], name_[s]>>>>

C7_DisconnectCleanup ==
  [][ (last'.op = "read_fail" /\ Live(last'.s)) =>
        LET s == last'.s
        IN /\ s \notin sessions'
           /\ ~IsValueOf(s, users_by_name')
           /\ ~InSomeRoom(s, rooms')
           /\ mode_[s] = "Room" =>
                \A t \in rooms[active_room_[s]] \ {s} :
                  Count(out'[t], LeftRoomMsg(s, active_room_[s])) = 1
           /\ \A t \in sessions \ {s} :
                Count(out'[t], LeftServerMsg(s)) = (IF has_name_[s] THEN 1 ELSE 0)
           /\ \A t \in Sess : "LeftServer" \in Kinds(out'[t]) => has_name_[s] ]_vars

\* A live, named session in a room with another member has just had its read
\* fail: the other member holds both notices.
C7_Witness ==
  /\ last.op = "read_fail"
  /\ last.live
  /\ \E t \in sessions : \E r \in DOMAIN rooms :
       /\ t \in rooms[r]
       /\ Count(out[t], LeftRoomMsg(last.s, r)) = 1
       /\ Count(out[t], LeftServerMsg(last.s)) = 1

\* ---------------------------------------------------------------- C8
\* C8: a terminated session handles no further input line, stays in mode None
\* and is in none of sessions, users_by_name and the rooms.
C8_TerminationIrreversible ==
  /\ \A s \in Sess : Terminated(s) =>
       /\ mode_[s] = "None"
       /\ ~IsValueOf(s, users_by_name)
       /\ ~InSomeRoom(s, rooms)
  /\ (last.op \in LineOps \ {"empty"}) => last.live

\* ---------------------------------------------------------------- C9
\* C9: /pv with a target that is no key of users_by_name, or that is the
\* session's own name, sends the one error reply to the session and changes
\* nothing else.
C9_FailedPvUnchanged ==
  [][ (last'.op = "pv" /\
       (last'.arg \notin DOMAIN users_by_name \/ last'.arg = name_[last'.s])) =>
        /\ out' = [NoOut EXCEPT ![last'.s] =
                     IF last'.arg \notin DOMAIN users_by_name
                     THEN << <<"UserNotFound">> >> ELSE << <<"SelfPv">> >>]
        /\ mode_' = mode_
        /\ active_room_' = active_room_
        /\ active_pv_' = active_pv_
        /\ sessions' = sessions
        /\ rooms' = rooms
        /\ users_by_name' = users_by_name ]_vars

\* A session in a room with another member asked for a private chat with an
\* unregistered name and is still in its room.
C9_Witness ==
  /\ last.op = "pv"
  /\ out[last.s] = << <<"UserNotFound">> >>
  /\ mode_[last.s] = "Room"
  /\ Cardinality(rooms[active_room_[last.s]]) = 2

\* ---------------------------------------------------------------- C10
\* C10: a name held by another live session is refused with the one reply
\* "Name already taken", the session stays unnamed, users_by_name is unchanged
\* and nobody is told of a join; the session keeps reading, and a line whose
\* name is no key of users_by_name is accepted and registered.
C10_NameCollisionRejected ==
  [][ /\ (last'.op = "name" /\
          \E t \in sessions \ {last'.s} : name_[t] = last'.arg) =>
            /\ out' = [NoOut EXCEPT ![last'.s] = << <<"NameTaken">> >>]
            /\ ~has_name_'[last'.s]
            /\ name_'[last'.s] = <<>>
            /\ reading'[last'.s]
            /\ users_by_name' = users_by_name
      /\ (last'.op = "name" /\ last'.arg \notin DOMAIN users_by_name) =>
            /\ has_name_'[last'.s]
            /\ name_'[last'.s] = last'.arg
            /\ users_by_name' = (last'.arg :> last'.s) @@ users_by_name ]_vars

\* A session was refused one name and then accepted under the other.
C10_Witness ==
  /\ last.op = "name"
  /\ last.live
  /\ out[last.s] = << <<"NameTaken">> >>
  /\ ~has_name_[last.s]
  /\ \E t \in sessions \ {last.s} : name_[t] = last.arg

\* ---------------------------------------------------------------- C11
\* C11: a chat line of a session in mode Room is delivered once, with the
\* sender's name and the room, to every other member of the room and to nobody
\* else.
RoomMsg(s, r, text) == <<"RoomMsg", <<color_[s], name_[s]>>, r, text>>

C11_RoomFanOut ==
  [][ (last'.op = "chat" /\ mode_[last'.s] = "Room") =>
        LET s == last'.s
            r == active_room_[s]
        IN \A t \in Sess :
             out'[t] = IF t \in rooms[r] \ {s}
                       THEN << RoomMsg(s, r, last'.arg) >>
                       ELSE <<>> ]_vars

\* A live session in a room with another live member has just sent a line.
C11_Witness ==
  /\ last.op = "chat"
  /\ last.live
  /\ mode_[last.s] = "Room"
  /\ out[last.s] = <<>>
  /\ \E t \in sessions \ {last.s} :
       /\ t \in rooms[active_room_[last.s]]
       /\ out[t] = << RoomMsg(last.s, active_room_[last.s], last.arg) >>

\* ---------------------------------------------------------------- C12
\* C12: a session that has not set its name is never handed a "joined the
\* server" or "left the server" notice.
BroadcastKinds == {"JoinedServer", "LeftServer"}

C12_NamedSessionsOnly ==
  \A t \in Sess : ~has_name_[t] => Kinds(out[t]) \cap BroadcastKinds = {}

\* C12 as amended: a server-wide notice goes once to every session that is in
\* sessions when it is sent, named or not (the "joined" notice also to the
\* session just named, the "left" notice not to the one that leaves), and
\* never to a session that is not in sessions.
JoinedServerMsg(s, name) == <<"JoinedServer", <<color_[s], name>>>>

C12_BroadcastToAllSessions ==
  [][ LET s == last'.s
      IN /\ (last'.op = "name" /\ has_name_'[s]) =>
              \A t \in Sess :
                Count(out'[t], JoinedServerMsg(s, last'.arg)) =
                  (IF t \in sessions THEN 1 ELSE 0)
         /\ (last'.op \in CleanupOps) =>
              \A t \in Sess :
                Count(out'[t], LeftServerMsg(s)) =
                  (IF has_name_[s] /\ t \in sessions \ {s} THEN 1 ELSE 0)
         /\ \A t \in Sess :
              Kinds(out'[t]) \cap BroadcastKinds # {} => t \in sessions' ]_vars

\* A live session that has no name yet holds the notice of another's naming.
C12_Witness ==
  /\ last.op = "name"
  /\ has_name_[last.s]
  /\ \E t \in sessions \ {last.s} :
       /\ ~has_name_[t]
       /\ out[t] = << JoinedServerMsg(last.s, last.arg) >>

\* ---------------------------------------------------------------- C13
\* C13: the session that joins a room is not handed its own "joined room"
\* notice.
C13_JoinerNotNotified ==
  last.op = "join" => "JoinedRoom" \notin Kinds(out[last.s])

\* C13 as amended: on /join r the "joined room" notice goes once to every
\* member of r after the insert, the joining session included (before its
\* acknowledgment); a "left room" notice goes once to each member that remains
\* and not to the session that leaves.
JoinedRoomMsg(s, r) == <<"JoinedRoom", <<color_[s], name_[s]>>, r>>

LeavesRoom(s) ==
  /\ mode_[s] = "Room"
  /\ \/ last'.op \in {"join", "leave"} \cup CleanupOps
     \/ last'.op = "pv" /\ mode_'[s] = "Pv"

C13_NoticesToMembers ==
  [][ LET s == last'.s
      IN /\ last'.op = "join" =>
              /\ \A t \in Sess :
                   Count(out'[t], JoinedRoomMsg(s, last'.arg)) =
                     (IF t \in rooms'[last'.arg] THEN 1 ELSE 0)
              /\ s \in rooms'[last'.arg]
              /\ out'[s] = << JoinedRoomMsg(s, last'.arg), <<"NowInRoom", last'.arg>> >>
         /\ last'.op \in LineOps \cup CleanupOps =>
              \A t \in Sess :
                Count(out'[t], LeftRoomMsg(s, active_room_[s])) =
                  (IF LeavesRoom(s) /\ t \in rooms[active_room_[s]] \ {s}
                   THEN 1 ELSE 0)
         /\ \A t \in Sess : "LeftRoom" \in Kinds(out'[t]) =>
              last'.op \in LineOps \cup CleanupOps /\ LeavesRoom(s) ]_vars

\* A live session has joined a room that had a member: both hold the notice.
C13_Witness ==
  /\ last.op = "join"
  /\ last.live
  /\ out[last.s] = << JoinedRoomMsg(last.s, last.arg), <<"NowInRoom", last.arg>> >>
  /\ \E t \in sessions \ {last.s} : out[t] = << JoinedRoomMsg(last.s, last.arg) >>

\* ---------------------------------------------------------------- C14
\* C14: a chat line of a session in mode Pv with peer p hands two messages (the
\* text, then the notification) to the live session named p and nothing to any
\* other session, and leaves the peer's mode and context alone; when no live
\* session is named p only the sender is handed "User went offline.".
LivePeer(p) == {t \in sessions : has_name_[t] /\ name_[t] = p}

PvMsgs(s, text) ==
  << <<"PvMsg", <<color_[s], name_[s]>>, text>>, <<"PvNotify", name_[s]>> >>

C14_PvRouting ==
  [][ (last'.op = "chat" /\ mode_[last'.s] = "Pv") =>
        LET s == last'.s
            P == LivePeer(active_pv_[s])
        IN IF P # {}
           THEN /\ \A t \in Sess :
                     out'[t] = IF t \in P THEN PvMsgs(s, last'.arg) ELSE <<>>
                /\ \A t \in P : /\ mode_'[t] = mode_[t]
                                /\ active_room_'[t] = active_room_[t]
                                /\ active_pv_'[t] = active_pv_[t]
           ELSE \A t \in Sess :
                  out'[t] = IF t = s THEN << <<"Offline">> >> ELSE <<>> ]_vars

\* ---------------------------------------------------------------- C15
\* C15: when a write to session B fails, cleanup runs for B; every other
\* session keeps its liveness, name, mode, context and its places in rooms and
\* users_by_name, whichever handler had started the write.
KeepsPlace(a) ==
  /\ (a \in sessions) = (a \in sessions')
  /\ name_'[a] = name_[a]
  /\ has_name_'[a] = has_name_[a]
  /\ mode_'[a] = mode_[a]
  /\ active_room_'[a] = active_room_[a]
  /\ active_pv_'[a] = active_pv_[a]
  /\ \A r \in DOMAIN rooms \cup DOMAIN rooms' :
       (r \in DOMAIN rooms /\ a \in rooms[r]) =
         (r \in DOMAIN rooms' /\ a \in rooms'[r])
  /\ \A n \in DOMAIN users_by_name \cup DOMAIN users_by_name' :
       (n \in DOMAIN users_by_name /\ users_by_name[n] = a) =
         (n \in DOMAIN users_by_name' /\ users_by_name'[n] = a)

C15_FailureAttribution ==
  [][ last'.op = "write_fail" =>
        /\ last'.s \notin sessions'
        /\ ~InSomeRoom(last'.s, rooms')
        /\ ~IsValueOf(last'.s, users_by_name')
        /\ \A a \in Sess \ {last'.s} : KeepsPlace(a) ]_vars

\* A write to a live session has failed while another live, named session,
\* whose handler had handed messages out, sits in a room.
C15_Witness ==
  /\ last.op = "write_fail"
  /\ last.live
  /\ last.s \notin sessions
  /\ \E a \in sessions \ {last.s} :
       /\ has_name_[a]
       /\ mode_[a] = "Room"
       /\ a \in rooms[active_room_[a]]
       /\ users_by_name[name_[a]] = a

\* ---------------------------------------------------------------- C16
\* C16: an async_accept is outstanding in every state, after a failed accept as
\* after a successful one, so a connection that comes in (while the model has a
\* session left to create) is accepted, and an accept creates and starts it.
C16_AcceptorNeverStops ==
  /\ [](accepting /\ (Cardinality(created) < MaxSessions => ENABLED AcceptOk))
  /\ [][ last'.op = "accept" =>
           /\ last'.s \in created' \ created
           /\ last'.s \in sessions'
           /\ reading'[last'.s]
           /\ out'[last'.s] = << <<"Welcome">> >> ]_vars

\* An accept has just failed with sessions already connected, and the next
\* connection can still be accepted.
C16_Witness ==
  /\ last.op = "accept_error"
  /\ sessions # {}
  /\ accepting
  /\ ENABLED AcceptOk

\* ---------------------------------------------------------------- C18
\* C18: /whereami, /rooms, /users and a chat line change no session's mode,
\* active_room_ or active_pv_, and leave sessions, rooms and users_by_name as
\* they were.
ReadOnlyOps == {"whereami", "rooms", "users", "chat"}

C18_QueriesReadOnly ==
  [][ last'.op \in ReadOnlyOps =>
        /\ mode_' = mode_
        /\ active_room_' = active_room_
        /\ active_pv_' = active_pv_
        /\ sessions' = sessions
        /\ rooms' = rooms
        /\ users_by_name' = users_by_name ]_vars

\* ---------------------------------------------------------------- C19
\* C19: a name whose session has disconnected and that no live session holds is
\* accepted and registered when a session without a name submits it.
NameFreed(n) ==
  /\ \E t \in created : Terminated(t) /\ has_name_[t] /\ name_[t] = n
  /\ \A t \in sessions : name_[t] # n

C19_NameReuse ==
  [][ (last'.op = "name" /\ last'.live /\ NameFreed(last'.arg)) =>
        /\ has_name_'[last'.s]
        /\ name_'[last'.s] = last'.arg
        /\ last'.arg \in DOMAIN users_by_name'
        /\ users_by_name'[last'.arg] = last'.s ]_vars

\* ---------------------------------------------------------------- C20
\* C20: a session without a name is in mode None with no room and no peer, in
\* no room's member set, no value of users_by_name and its name_ no key of it;
\* a non-empty line of such a session is handled as its name only, whatever
\* its form, and a name once set never changes.
Unnamed(s) == s \in created /\ ~has_name_[s]

C20_UnnamedNoContext ==
  /\ [](\A s \in Sess : Unnamed(s) =>
          /\ mode_[s] = "None"
          /\ active_room_[s] = <<>>
          /\ active_pv_[s] = <<>>
          /\ ~InSomeRoom(s, rooms)
          /\ ~IsValueOf(s, users_by_name)
          /\ name_[s] \notin DOMAIN users_by_name)
  /\ [][ /\ \A s \in Sess : has_name_[s] =>
              has_name_'[s] /\ name_'[s] = name_[s]
         /\ (last'.op \in LineOps \ {"empty"} /\ ~has_name_[last'.s]) =>
              /\ last'.op = "name"
              /\ rooms' = rooms
              /\ mode_' = mode_
              /\ has_name_'[last'.s] => name_'[last'.s] = last'.arg ]_vars


\* A live session has just been named by a line of the form of a /join
\* command: it is in no mode and no room was made.
C20_Witness ==
  /\ last.op = "name"
  /\ last.live
  /\ last.arg = NameJ
  /\ has_name_[last.s]
  /\ name_[last.s] = NameJ
  /\ users_by_name[NameJ] = last.s
  /\ mode_[last.s] = "None"
  /\ <<"r">> \notin DOMAIN rooms


\* ---------------------------------------------------------------- C17
\* C17: the bytes written to a session's connection follow the messages handed
\* to deliver() for it, in the order of the calls, also when a write begins
\* before an earlier one to the same session is complete (a byte read from a
\* destroyed buffer counts for the byte it stands for).
RECURSIVE Flatten(_)
Flatten(msgs) == IF msgs = <<>> THEN <<>> ELSE Head(msgs) \o Flatten(Tail(msgs))

InOrder(a, b) ==
  /\ Len(a) <= Len(b)
  /\ \A j \in DOMAIN a : a[j] = b[j] \/ a[j] = Indeterminate

C17_DeliveryOrder ==
  \A t \in Sess : InOrder(wire[t], Flatten(issued[t]))

====
